---- MODULE Spec2Model ----
(***************************************************************************)
(* State-machine model of fusepy (src/fuse.py): the module-level libfuse   *)
(* version check, the construction of the fuse_operations dispatch table   *)
(* in FUSE.__init__, the invocation envelope FUSE._wrapper run by the      *)
(* native worker threads, and the tail of the mount call FUSE.__init__     *)
(* after fuse_main_real has returned.                                      *)
(*                                                                         *)
(* Python objects are records [k, v, a]:                                   *)
(*   k = "none"                      None                                  *)
(*   k = "int",  v = n               the integer n                         *)
(*   k = "str",  v = n               a str/bytes object of length n        *)
(*   k = "OSError", a = "int", v = e an OSError whose errno is the int e   *)
(*   k = "OSError", a = "none"|"str" an OSError whose errno is None / a    *)
(*                                   string                                *)
(*   k = "Exception", v = tag        an ordinary Exception instance        *)
(*   k = "BaseException", v = tag    a BaseException that is not an        *)
(*                                   Exception (SystemExit, ...)           *)
(*   k = "RuntimeError", v = err     RuntimeError(err)                     *)
(*   k = "TypeError"|"AttributeError"                                      *)
(***************************************************************************)
EXTENDS Integers, Sequences, FiniteSets, TLC

VARIABLES
    version,              \* number reported by libfuse.fuse_version()
    fuse_version_minor,   \* module global set by the version check
    _system,              \* platform.system()
    impl,                 \* attribute of the operations object, per name
    fuse_ops,             \* the fuse_operations structure, per field
    critical_exception,   \* FUSE.__critical_exception
    exit_req,             \* what fuse_exit() has asked the native layer
    sigint,               \* disposition of SIGINT in the process
    main_thread,          \* FUSE(...) is called on the main thread
    old_handler,          \* local old_handler of FUSE.__init__
    err,                  \* status returned by fuse_main_real
    mpc,                  \* position of the thread that called FUSE(...)
    result,               \* how the call FUSE(...) ended
    thr,                  \* per native worker thread: position in _wrapper
    calls,                \* number of callbacks issued by the native loop
    private_data,         \* what the native layer stored from init
    raw_fi,               \* FUSE.raw_fi
    fi,                   \* the fuse_file_info record of each open instance
    opens,                \* per open instance: closed, opening or open
    cb,                   \* the callback being marshalled, and its effects
    rd,                   \* position of FUSE.readdir in its loop
    xq,                   \* the last size query of getxattr or listxattr
    use_ns,               \* FUSE.use_ns
    st,                   \* the attribute record of the last getattr
    utimes                \* the times FUSE.utimens handed to its handler

\* the variables of the marshalling methods
opvars == << raw_fi, fi, opens, cb, rd, xq, use_ns, st, utimes >>

vars == << version, fuse_version_minor, _system, impl, fuse_ops,
           critical_exception, exit_req, sigint, main_thread, old_handler,
           err, mpc, result, thr, calls, private_data, opvars >>

-----------------------------------------------------------------------------
(* Bounds *)

NumThreads == 2
MaxCalls == 2

(* errno constants used by the envelope *)
EINVAL == 22
EFAULT == 14

-----------------------------------------------------------------------------
(* Python values *)

PyNone == [k |-> "none", v |-> 0, a |-> ""]
PyInt(n) == [k |-> "int", v |-> n, a |-> ""]
PyStr(n) == [k |-> "str", v |-> n, a |-> ""]
OSErrorWith(errnoVal) ==
    [k |-> "OSError",
     v |-> IF errnoVal.k = "int" THEN errnoVal.v ELSE 0,
     a |-> errnoVal.k]
ErrnoOf(e) ==
    IF e.a = "int" THEN PyInt(e.v) ELSE IF e.a = "str" THEN PyStr(1) ELSE PyNone
PyException(tag) == [k |-> "Exception", v |-> tag, a |-> ""]
PyBaseException(tag) == [k |-> "BaseException", v |-> tag, a |-> ""]
RuntimeError(n) == [k |-> "RuntimeError", v |-> n, a |-> ""]
TypeError == [k |-> "TypeError", v |-> 0, a |-> ""]
AttributeError == [k |-> "AttributeError", v |-> 0, a |-> ""]

\* Python truth value: None, 0, empty strings, bytes and lists, and NULL
\* ctypes pointers are false; exception instances (no __bool__/__len__)
\* are true.
Truthy(x) ==
    CASE x.k \in {"none", "nullptr"} -> FALSE
      [] x.k = "int" -> x.v # 0
      [] x.k \in {"str", "bytes", "list"} -> x.v > 0
      [] OTHER -> TRUE

\* Python "x or 0"
OrZero(x) == IF Truthy(x) THEN x ELSE PyInt(0)

\* An outcome of a call: a returned value or a raised exception object.
Returned(x) == [raised |-> FALSE, val |-> x]
Raised(x) == [raised |-> TRUE, val |-> x]
NoOutcome == [raised |-> FALSE, val |-> [k |-> "pending", v |-> 0, a |-> ""]]

\* Values a high-level handler may return
ReturnValues == {PyNone, PyInt(5), PyStr(1)}
\* errno attributes an OSError raised by a handler may carry
ErrnoValues == {PyInt(2), PyInt(0), PyInt(-1), PyNone}
\* Distinct exception instances
Tags == {1, 2}

HandlerOutcomes ==
    {Returned(x) : x \in ReturnValues}
    \cup {Raised(OSErrorWith(e)) : e \in ErrnoValues}
    \cup {Raised(PyException(1))}
    \cup {Raised(PyBaseException(g)) : g \in Tags}

-----------------------------------------------------------------------------
(* Version detection, src/fuse.py 154-172 *)

get_fuse_version(v) ==
    IF v < 100 THEN [ok |-> TRUE, major |-> v \div 10, minor |-> v % 10]
    ELSE IF v < 1000 THEN [ok |-> TRUE, major |-> v \div 100, minor |-> v % 100]
    ELSE [ok |-> FALSE, major |-> 0, minor |-> 0]

\* VersionAccepted without the test of the minor version
VersionAccepted_AnyMinor(v) ==
    LET d == get_fuse_version(v) IN
    /\ d.ok
    /\ d.major = 2

VersionAccepted(v) ==
    LET d == get_fuse_version(v) IN
    /\ d.ok
    /\ ~(d.major = 2 /\ d.minor < 6)
    /\ d.major = 2

-----------------------------------------------------------------------------
(* The fuse_operations field list, src/fuse.py 591-678.  kind "cb" is a    *)
(* CFUNCTYPE slot, "ptr" a c_void_p member, "bits" a bit field; since is   *)
(* the minor version whose "if fuse_version_minor >= since" adds the       *)
(* field.                                                                  *)

F(n, kd, s) == [name |-> n, kind |-> kd, since |-> s]

_fuse_operations_fields == <<
    F("getattr", "cb", 0), F("readlink", "cb", 0), F("getdir", "ptr", 0),
    F("mknod", "cb", 0), F("mkdir", "cb", 0), F("unlink", "cb", 0),
    F("rmdir", "cb", 0), F("symlink", "cb", 0), F("rename", "cb", 0),
    F("link", "cb", 0), F("chmod", "cb", 0), F("chown", "cb", 0),
    F("truncate", "cb", 0), F("utime", "ptr", 0), F("open", "cb", 0),
    F("read", "cb", 0), F("write", "cb", 0), F("statfs", "cb", 0),
    F("flush", "cb", 0), F("release", "cb", 0), F("fsync", "cb", 0),
    F("setxattr", "cb", 0), F("getxattr", "cb", 0), F("listxattr", "cb", 0),
    F("removexattr", "cb", 0),
    F("opendir", "cb", 3), F("readdir", "cb", 3), F("releasedir", "cb", 3),
    F("fsyncdir", "cb", 3), F("init", "cb", 3), F("destroy", "cb", 3),
    F("access", "cb", 5), F("create", "cb", 5), F("ftruncate", "cb", 5),
    F("fgetattr", "cb", 5),
    F("lock", "cb", 6), F("utimens", "cb", 6), F("bmap", "cb", 6),
    F("flag_nullpath_ok", "bits", 8), F("flag_nopath", "bits", 8),
    F("flag_utime_omit_ok", "bits", 8), F("flag_reserved", "bits", 8),
    F("ioctl", "cb", 8),
    F("poll", "cb", 9), F("write_buf", "cb", 9), F("read_buf", "cb", 9),
    F("flock", "cb", 9), F("fallocate", "cb", 9) >>

FieldIdx == 1..Len(_fuse_operations_fields)
AllNames == {_fuse_operations_fields[i].name : i \in FieldIdx}
FieldByName ==
    [n \in AllNames |->
        _fuse_operations_fields[CHOOSE i \in FieldIdx :
                                    _fuse_operations_fields[i].name = n]]
FieldOf(n) == FieldByName[n]
\* the fields present for a given minor version
FieldNames(minor) == {n \in AllNames : FieldOf(n).since <= minor}
CallbackNames(minor) == {n \in FieldNames(minor) : FieldOf(n).kind = "cb"}

-----------------------------------------------------------------------------
(* The operations object.  impl[n] says what getattr(operations, n, None)  *)
(* finds:                                                                  *)
(*   "absent"   no such attribute                                          *)
(*   "none"     the attribute is None                                      *)
(*   "ignored"  a method carrying libfuse_ignore = True (a placeholder of  *)
(*              the base class Operations, not overridden)                 *)
(*   "method"   a method without the mark (defined by the implementation,  *)
(*              or the unmarked Operations.getattr)                        *)
(*   "int"      a plain integer attribute                                  *)

\* class Operations, src/fuse.py 1169-1415: every callback name is a
\* placeholder marked by _nullable_dummy_function, except getattr; there is
\* no attribute for ftruncate, fgetattr and the non-callback members.
Operations ==
    [n \in AllNames |->
        IF n = "getattr" THEN "method"
        ELSE IF FieldOf(n).kind = "cb" /\ n \notin {"ftruncate", "fgetattr"}
             THEN "ignored"
        ELSE "absent"]

\* a subclass of Operations that overrides the names in dom(o)
Subclass(o) ==
    [n \in AllNames |-> IF n \in DOMAIN o THEN o[n] ELSE Operations[n]]

-----------------------------------------------------------------------------
(* Dispatch-table construction, src/fuse.py 794-815 *)

\* lines 798-803
check_name(name) ==
    IF name \in {"ftruncate", "fgetattr"}
    THEN IF name = "ftruncate" THEN "truncate" ELSE "getattr"
    ELSE name

\* Skipped without the test of the libfuse_ignore mark
Skipped_MarkUnchecked(ops, name) ==
    ops[check_name(name)] \in {"absent", "none"}

\* lines 805-807: "val is None or getattr(val, 'libfuse_ignore', False)"
Skipped(ops, name) ==
    ops[check_name(name)] \in {"absent", "none", "ignored"}

\* lines 812-815: what setattr(fuse_ops, name, val) leaves in the field;
\* "TypeError" when ctypes cannot convert a method to a c_void_p / bit field
FieldValue(ops, name) ==
    IF Skipped(ops, name) THEN "null"
    ELSE IF FieldOf(name).kind = "cb" THEN "installed"
    ELSE IF ops[check_name(name)] = "int" THEN "value"
    ELSE "TypeError"

NoTable == [n \in AllNames |-> "unbuilt"]

-----------------------------------------------------------------------------
(* High-level call and invocation envelope *)

\* Operations.__call__, src/fuse.py 1188-1191: hout is what the method
\* getattr(self, op) does when it is called.
Operations__call__(ops, op, hout) ==
    IF ops[op] = "absent" THEN Raised(OSErrorWith(PyInt(EFAULT))) ELSE hout

\* The FUSE methods that hand the result of self.operations(name, ...)
\* back unchanged: FUSE.mkdir (912-913), FUSE.init (1080-1081),
\* FUSE.destroy (1083-1084).
PassThrough == {"mkdir", "init", "destroy"}
func(ops, name, hout) == Operations__call__(ops, name, hout)

\* OSErrorCode with the test "e.errno >= 0" in place of "e.errno > 0"
OSErrorCode_NonNegative(e) ==
    IF ErrnoOf(e).k = "int" /\ ErrnoOf(e).v >= 0
    THEN PyInt(-(ErrnoOf(e).v))
    ELSE PyInt(-EINVAL)

\* "except OSError as e", src/fuse.py 860-871
OSErrorCode(e) ==
    IF ErrnoOf(e).k = "int" /\ ErrnoOf(e).v > 0
    THEN PyInt(-(ErrnoOf(e).v))
    ELSE PyInt(-EINVAL)

\* ExceptionCode with the sign of the code lost
ExceptionCode_Positive(e) == PyInt(EINVAL)

\* "except Exception", src/fuse.py 873-877
ExceptionCode(e) == PyInt(-EINVAL)

\* the exception classes below Exception
IsException(e) ==
    e.k \in {"OSError", "Exception", "RuntimeError", "TypeError",
             "AttributeError", "AssertionError"}

\* _wrapper_try without the inner "except OSError" / "except Exception"
_wrapper_try_NoInnerHandlers(name, out) ==
    IF out.raised THEN out ELSE Returned(OrZero(out.val))

\* _wrapper_try without the special case for init
_wrapper_try_InitLikeOthers(name, out) ==
    IF ~out.raised THEN Returned(OrZero(out.val))
    ELSE IF out.val.k = "OSError"
         THEN Returned(IF ErrnoOf(out.val).k = "int" /\ ErrnoOf(out.val).v > 0
                       THEN PyInt(-(ErrnoOf(out.val).v))
                       ELSE PyInt(-EINVAL))
    ELSE IF out.val.k \in {"OSError", "Exception", "RuntimeError",
                           "TypeError", "AttributeError"}
         THEN Returned(PyInt(-EINVAL))
    ELSE out

\* The try block of _wrapper, src/fuse.py 850-877, applied to the outcome
\* of func(*args, **kwargs): the value it returns, or the exception that
\* leaves it towards "except BaseException".
_wrapper_try(name, out) ==
    IF name = "init"
    THEN IF out.raised THEN out ELSE Returned(OrZero(out.val))
    ELSE IF ~out.raised THEN Returned(OrZero(out.val))
         ELSE IF out.val.k = "OSError" THEN Returned(OSErrorCode(out.val))
         ELSE IF IsException(out.val) THEN Returned(ExceptionCode(out.val))
         ELSE out

-----------------------------------------------------------------------------
(* Native worker threads.  A thread is idle, or inside one callback:       *)
(*   "called"   _wrapper entered, func not yet finished                    *)
(*   "except"   in "except BaseException as e", before line 880            *)
(*   "exiting"  line 880 done, before fuse_exit() of line 886              *)
(*   "ret"      _wrapper has produced its result ret for the native layer  *)
(* out is the outcome of func, ret the outcome of _wrapper.                *)

Threads == 1..NumThreads

Idle == [pc |-> "idle", op |-> "", out |-> NoOutcome, ret |-> NoOutcome]

AllIdle == \A t \in Threads : thr[t].pc = "idle"

\* the variables no callback step touches
SessionFrame ==
    UNCHANGED << version, fuse_version_minor, _system, impl, fuse_ops,
                 sigint, main_thread, old_handler, err, result, opvars >>

\* the native loop calls the init slot first, on one thread
CallInit(t) ==
    /\ mpc = "main_init"
    /\ AllIdle
    /\ fuse_ops["init"] = "installed"
    /\ thr' = [thr EXCEPT ![t] = [Idle EXCEPT !.pc = "called", !.op = "init"]]
    /\ UNCHANGED << critical_exception, exit_req, mpc, calls, private_data >>
    /\ SessionFrame

\* no init slot: the native layer goes on to serve requests
SkipInit ==
    /\ mpc = "main_init"
    /\ fuse_ops["init"] # "installed"
    /\ mpc' = "main_serve"
    /\ UNCHANGED << critical_exception, exit_req, thr, calls, private_data >>
    /\ SessionFrame

\* a request arrives and the native loop calls the installed slot
CallOp(t, name) ==
    /\ mpc = "main_serve"
    /\ thr[t].pc = "idle"
    /\ name \in PassThrough \ {"init", "destroy"}
    /\ fuse_ops[name] = "installed"
    /\ calls < MaxCalls
    /\ calls' = calls + 1
    /\ thr' = [thr EXCEPT ![t] = [Idle EXCEPT !.pc = "called", !.op = name]]
    /\ UNCHANGED << critical_exception, exit_req, mpc, private_data >>
    /\ SessionFrame

\* the native layer calls the destroy slot while it shuts down
CallDestroy(t) ==
    /\ mpc = "main_destroy"
    /\ AllIdle
    /\ fuse_ops["destroy"] = "installed"
    /\ thr' = [thr EXCEPT ![t] = [Idle EXCEPT !.pc = "called",
                                              !.op = "destroy"]]
    /\ mpc' = "main_destroying"
    /\ UNCHANGED << critical_exception, exit_req, calls, private_data >>
    /\ SessionFrame

SkipDestroy ==
    /\ mpc = "main_destroy"
    /\ fuse_ops["destroy"] # "installed"
    /\ mpc' = "main_exit"
    /\ UNCHANGED << critical_exception, exit_req, thr, calls, private_data >>
    /\ SessionFrame

\* _wrapper lines 850-877: func runs and the try block handles its outcome
RunFunc(t) ==
    /\ thr[t].pc = "called"
    /\ \E hout \in HandlerOutcomes :
          LET out == func(impl, thr[t].op, hout)
              res == _wrapper_try(thr[t].op, out)
          IN  thr' = [thr EXCEPT ![t] =
                        [pc |-> IF res.raised THEN "except" ELSE "ret",
                         op |-> thr[t].op,
                         out |-> out,
                         ret |-> IF res.raised THEN NoOutcome ELSE res]]
    /\ UNCHANGED << critical_exception, exit_req, mpc, calls, private_data >>
    /\ SessionFrame

\* _wrapper line 880: self.__critical_exception = e
RecordCritical(t) ==
    /\ thr[t].pc = "except"
    /\ critical_exception' = thr[t].out.val
    /\ thr' = [thr EXCEPT ![t].pc = "exiting"]
    /\ UNCHANGED << exit_req, mpc, calls, private_data >>
    /\ SessionFrame

\* fuse_exit() that returns without asking anything of the native layer
fuse_exit_request_Never(sys) == "none"

\* fuse_exit(), src/fuse.py 720-735: what it asks of the native layer
fuse_exit_request(sys) == IF sys = "OpenBSD" THEN "SIGTERM" ELSE "fuse_exit"

\* _wrapper lines 886-887: fuse_exit(); return -errno.EFAULT
FuseExit(t) ==
    /\ thr[t].pc = "exiting"
    /\ exit_req' = fuse_exit_request(_system)
    /\ thr' = [thr EXCEPT ![t].pc = "ret",
                          ![t].ret = Returned(PyInt(-EFAULT))]
    /\ UNCHANGED << critical_exception, mpc, calls, private_data >>
    /\ SessionFrame

\* the callback returns into the native layer; the result of init becomes
\* the private_data of the fuse context
Return(t) ==
    /\ thr[t].pc = "ret"
    /\ thr' = [thr EXCEPT ![t] = Idle]
    /\ mpc' = IF thr[t].op = "init" THEN "main_serve"
              ELSE IF thr[t].op = "destroy" THEN "main_exit"
              ELSE mpc
    /\ private_data' = IF thr[t].op = "init" THEN thr[t].ret.val
                       ELSE private_data
    /\ UNCHANGED << critical_exception, exit_req, calls >>
    /\ SessionFrame

-----------------------------------------------------------------------------
(* The thread that imports the module and calls FUSE(...) *)

Pending == [state |-> "pending", val |-> PyNone]
ReturnedNormally == [state |-> "returned", val |-> PyNone]
RaisedOut(e) == [state |-> "raised", val |-> e]

\* module import, src/fuse.py 154-172: the version check
Import ==
    /\ mpc = "import"
    /\ IF VersionAccepted(version)
       THEN /\ fuse_version_minor' = get_fuse_version(version).minor
            /\ mpc' = "construct"
            /\ result' = result
       ELSE /\ fuse_version_minor' = fuse_version_minor
            /\ mpc' = "import_failed"
            /\ result' = RaisedOut(AttributeError)
    /\ UNCHANGED << version, _system, impl, fuse_ops, critical_exception,
                    exit_req, sigint, main_thread, old_handler, err, thr,
                    calls, private_data, opvars >>

\* FUSE.__init__ lines 794-815: the loop over fuse_operations._fields_
BuildTable ==
    /\ mpc = "construct"
    /\ IF \E n \in FieldNames(fuse_version_minor) :
              FieldValue(impl, n) = "TypeError"
       THEN /\ fuse_ops' = fuse_ops
            /\ mpc' = "done"
            /\ result' = RaisedOut(TypeError)
       ELSE /\ fuse_ops' = [n \in AllNames |->
                               IF n \in FieldNames(fuse_version_minor)
                               THEN FieldValue(impl, n) ELSE "nofield"]
            /\ mpc' = "set_signal"
            /\ result' = result
    /\ UNCHANGED << version, fuse_version_minor, _system, impl,
                    critical_exception, exit_req, sigint, main_thread,
                    old_handler, err, thr, calls, private_data, opvars >>

\* what signal.signal() reports for a disposition: a handler that was not
\* installed from Python is reported as None
PyHandler(disp) == IF disp = "c_handler" THEN "None" ELSE disp

\* FUSE.__init__ lines 817-820.  signal() raises ValueError off the main
\* thread.
OverrideSignal ==
    /\ mpc = "set_signal"
    /\ IF main_thread
       THEN /\ old_handler' = PyHandler(sigint)
            /\ sigint' = "SIG_DFL"
       ELSE /\ old_handler' = "SIG_DFL"
            /\ sigint' = sigint
    /\ mpc' = "mount"
    /\ UNCHANGED << version, fuse_version_minor, _system, impl, fuse_ops,
                    critical_exception, exit_req, main_thread, err, result,
                    thr, calls, private_data, opvars >>

\* fuse_main_real (line 822) mounts and enters the native loop
StartLoop ==
    /\ mpc = "mount"
    /\ mpc' = "main_init"
    /\ UNCHANGED << version, fuse_version_minor, _system, impl, fuse_ops,
                    critical_exception, exit_req, sigint, main_thread,
                    old_handler, err, result, thr, calls, private_data, opvars >>

\* fuse_main_real fails before any callback is made
MountFails ==
    /\ mpc = "mount"
    /\ err' = 1
    /\ mpc' = "restore_signal"
    /\ UNCHANGED << version, fuse_version_minor, _system, impl, fuse_ops,
                    critical_exception, exit_req, sigint, main_thread,
                    old_handler, result, thr, calls, private_data, opvars >>

\* the native loop stops serving: after fuse_exit(), or on an unmount or
\* signal from outside; running callbacks have finished
StopLoop ==
    /\ mpc = "main_serve"
    /\ AllIdle
    /\ mpc' = "main_destroy"
    /\ UNCHANGED << version, fuse_version_minor, _system, impl, fuse_ops,
                    critical_exception, exit_req, sigint, main_thread,
                    old_handler, err, result, thr, calls, private_data, opvars >>

\* fuse_main_real returns its status (lines 822-825)
LoopReturn ==
    /\ mpc = "main_exit"
    /\ \E status \in {0, 1} : err' = status
    /\ mpc' = "restore_signal"
    /\ UNCHANGED << version, fuse_version_minor, _system, impl, fuse_ops,
                    critical_exception, exit_req, sigint, main_thread,
                    old_handler, result, thr, calls, private_data, opvars >>

\* FUSE.__init__ lines 827-830.  signal(SIGINT, old_handler) raises
\* ValueError off the main thread (caught) and TypeError for the handler
\* None (not caught: it leaves __init__).
RestoreSignal ==
    /\ mpc = "restore_signal"
    /\ IF ~main_thread
       THEN /\ sigint' = sigint
            /\ mpc' = "teardown"
            /\ result' = result
       ELSE IF old_handler = "None"
       THEN /\ sigint' = sigint
            /\ mpc' = "done"
            /\ result' = RaisedOut(TypeError)
       ELSE /\ sigint' = old_handler
            /\ mpc' = "teardown"
            /\ result' = result
    /\ UNCHANGED << version, fuse_version_minor, _system, impl, fuse_ops,
                    critical_exception, exit_req, main_thread, old_handler,
                    err, thr, calls, private_data, opvars >>

\* MountResult that looks at the exit status only
MountResult_StatusOnly(crit, status) ==
    IF status # 0 THEN RaisedOut(RuntimeError(status)) ELSE ReturnedNormally

\* FUSE.__init__ lines 832-836: how the mount call ends
MountResult(crit, status) ==
    IF Truthy(crit) THEN RaisedOut(crit)
    ELSE IF status # 0 THEN RaisedOut(RuntimeError(status))
    ELSE ReturnedNormally

Teardown ==
    /\ mpc = "teardown"
    /\ result' = MountResult(critical_exception, err)
    /\ mpc' = "done"
    /\ UNCHANGED << version, fuse_version_minor, _system, impl, fuse_ops,
                    critical_exception, exit_req, sigint, main_thread,
                    old_handler, err, thr, calls, private_data, opvars >>

-----------------------------------------------------------------------------
(* The marshalling methods of FUSE (src/fuse.py 897-1155): what each one   *)
(* passes to the high-level operation and what it writes for the kernel.   *)

\* bounds
NumInstances == 2       \* open instances the kernel holds at one time
MaxSize == 2            \* largest capacity the kernel declares for a buffer
MaxEntries == 5         \* most entries a directory listing produces
FhModulus == 16         \* values of the unsigned field fh (2^64 in libfuse)

ERANGE == 34

Instances == 1 .. NumInstances

\* the fuse_file_info record the kernel allocates, zeroed, for an open
NewFileInfo == [fh |-> 0]

\* handle arguments a high-level operation can be called with
Omitted == [k |-> "omitted", v |-> 0, a |-> ""]
NullPtr == [k |-> "nullptr", v |-> 0, a |-> ""]
FiRecord(i) == [k |-> "fuse_file_info", v |-> i, a |-> ""]
PyDict == [k |-> "dict", v |-> 0, a |-> ""]
PyBytes(n) == [k |-> "bytes", v |-> n, a |-> ""]
AssertionError == [k |-> "AssertionError", v |-> 0, a |-> ""]

\* NumericHandle that reads a zeroed record
NumericHandle_Zero(i) == PyInt(0)

\* "fip.contents.fh" alone, as the directory methods read it
NumericHandle(i) == PyInt(fi[i].fh)

\* FileHandle with the bare number passed in both modes
FileHandle_AlwaysNumeric(i) == NumericHandle(i)

\* "fip.contents if self.raw_fi else fip.contents.fh"
FileHandle(i) == IF raw_fi THEN FiRecord(i) ELSE NumericHandle(i)

\* assignment to the c_uint64 field fh: ctypes accepts an int and keeps it
\* modulo the width of the field, and raises TypeError for anything else
IsInt(x) == x.k = "int"
c_uint64(n) == n % FhModulus

\* memory at the address of a caller's buffer: the declared capacity is
\* at most MaxSize, the cells behind it belong to someone else
MemLen == MaxSize + 3
Untouched == [j \in 1 .. MemLen |-> -1]
Bytes(n) == [j \in 1 .. n |-> j]
NUL == 0
memmove(mem, data) ==
    [j \in 1 .. MemLen |-> IF j <= Len(data) THEN data[j] ELSE mem[j]]

\* no callback has been marshalled yet
NoCallback ==
    [op |-> "", inst |-> 0, hname |-> "", hfh |-> Omitted,
     hout |-> NoOutcome, size |-> 0, bufnull |-> FALSE, mem |-> Untouched,
     ret |-> NoOutcome, fhset |-> FALSE]

NoQuery == [op |-> "", hout |-> NoOutcome, ret |-> NoOutcome]

NoReaddir == [pc |-> "idle", entries |-> 0, full |-> 0, pulled |-> 0,
              delivered |-> << >>]

\* the table FUSE.__init__ leaves in fuse_ops when no field raises
BuiltTable(ops, minor) ==
    [n \in AllNames |->
        IF n \in FieldNames(minor) THEN FieldValue(ops, n) ELSE "nofield"]

\* the native loop calls the slot of an installed callback
Serving(name) ==
    /\ mpc = "main_serve"
    /\ fuse_ops[name] = "installed"
    /\ rd.pc = "idle"

\* what _wrapper hands to the kernel for the outcome of a FUSE method
Envelope(name, out) ==
    IF _wrapper_try(name, out).raised THEN Returned(PyInt(-EFAULT))
    ELSE _wrapper_try(name, out)

\* the rest of the session is left alone by a marshalled callback
MarshalFrame ==
    UNCHANGED << version, fuse_version_minor, _system, impl, fuse_ops,
                 sigint, main_thread, old_handler, err, mpc, result, thr,
                 calls, private_data, raw_fi, use_ns >>

\* _wrapper around a FUSE method that called high-level operation hname
\* with handle hfh, got hout from it and ended with outcome out; the
\* locals of an earlier readdir are gone
MarshalCall(name, i, hname, hfh, hout, out, size, bufnull, mem, fhset) ==
    /\ cb' = [op |-> name, inst |-> i, hname |-> hname, hfh |-> hfh,
              hout |-> hout, size |-> size, bufnull |-> bufnull,
              mem |-> mem, ret |-> Envelope(name, out), fhset |-> fhset]
    /\ rd' = NoReaddir
    /\ xq' = IF name \in {"getxattr", "listxattr"} /\ bufnull
             THEN [op |-> name, hout |-> hout, ret |-> Envelope(name, out)]
             ELSE xq
    /\ critical_exception' =
           IF _wrapper_try(name, out).raised THEN out.val
           ELSE critical_exception
    /\ exit_req' =
           IF _wrapper_try(name, out).raised THEN fuse_exit_request(_system)
           ELSE exit_req
    /\ MarshalFrame

NsPerSec == 1000000000
S_IFDIR == 16384
ENOENT == 2

\* the fields of c_stat the model follows: integer fields, and time
\* pairs; st_birthtimespec exists on OpenBSD (436) and not on Linux
PlainFields == {"st_mode", "st_nlink", "st_size"}
TimeFields(sys) ==
    {"st_atimespec", "st_mtimespec", "st_ctimespec"}
    \cup (IF sys = "OpenBSD" THEN {"st_birthtimespec"} ELSE {})

\* a c_stat whose every byte is n
c_stat(sys, n) ==
    [plain |-> [f \in PlainFields |-> n],
     times |-> [f \in TimeFields(sys) |-> [tv_sec |-> n, tv_nsec |-> n]]]

\* memset that leaves the caller's record as it is
memset_Skipped(buf, sys) == buf

\* line 1104: ctypes.memset(buf, 0, ctypes.sizeof(c_stat))
memset(buf, sys) == c_stat(sys, 0)

\* divmod rounding toward zero, as C division does
divmod_Truncating(x, y) ==
    IF x >= 0 THEN [q |-> x \div y, r |-> x % y]
    ELSE [q |-> -((-x) \div y), r |-> -((-x) % y)]

\* Python divmod for a positive divisor: floor division and its remainder
divmod(x, y) == [q |-> x \div y, r |-> x % y]

\* line 698 and "key + 'spec'" of line 699
TimeKeys == {"st_atime", "st_mtime", "st_ctime", "st_birthtime"}
SpecOf(key) ==
    CASE key = "st_atime" -> "st_atimespec"
      [] key = "st_mtime" -> "st_mtimespec"
      [] key = "st_ctime" -> "st_ctimespec"
      [] key = "st_birthtime" -> "st_birthtimespec"

\* lines 703-707: the time pair for a value; without use_ns the value is a
\* number of seconds, here a whole one
timespec_of(val, ns) ==
    IF ns THEN [tv_sec |-> divmod(val, NsPerSec).q,
                tv_nsec |-> divmod(val, NsPerSec).r]
    ELSE [tv_sec |-> val, tv_nsec |-> 0]

\* one round of the loop of set_st_attrs (697-709)
set_st_attr(rec, key, val, ns) ==
    IF key \in TimeKeys
    THEN IF SpecOf(key) \notin DOMAIN rec.times THEN rec
         ELSE [rec EXCEPT !.times[SpecOf(key)] = timespec_of(val, ns)]
    ELSE IF key \in DOMAIN rec.plain
         THEN [rec EXCEPT !.plain[key] = val]
    ELSE rec

\* set_st_attrs (696-709) for the items of attrs in their order
RECURSIVE set_st_attrs(_, _, _)
set_st_attrs(rec, items, ns) ==
    IF items = << >> THEN rec
    ELSE set_st_attrs(set_st_attr(rec, Head(items).key, Head(items).val, ns),
                      Tail(items), ns)

\* time_of_timespec (690-694): an int of nanoseconds with use_ns, else the
\* float whole + frac / 1E9
time_of_timespec(ts, ns) ==
    IF ns THEN [k |-> "int", whole |-> ts.tv_sec * NsPerSec + ts.tv_nsec,
                frac |-> 0]
    ELSE [k |-> "float", whole |-> ts.tv_sec, frac |-> ts.tv_nsec]

\* attribute maps a getattr handler returns: the one of Operations.getattr
\* first, one with a time key that has no pair on Linux and a key that
\* names no field, and maps with time stamps on both sides of zero and of
\* a full second
Item(key, val) == [key |-> key, val |-> val]
Stamps ==
    << -1000000001, -1000000000, -1, 0, 1, 999999999, 1000000000,
       1999999999 >>
AttrMaps ==
    << << Item("st_mode", S_IFDIR + 493), Item("st_nlink", 2) >>,
       << Item("st_size", 5), Item("st_birthtime", 1), Item("st_gen", 4) >> >>
    \o [j \in 1 .. Len(Stamps) |->
           << Item("st_atime", Stamps[j]),
              Item("st_mtime", Stamps[Len(Stamps) + 1 - j]),
              Item("st_nlink", 1) >>]
Dict(n) == [k |-> "dict", v |-> n, a |-> ""]
ItemsOf(d) == IF d.v = 0 THEN << >> ELSE AttrMaps[d.v]

\* no getattr and no utimens yet
NoStat == [path |-> "", rec |-> c_stat("Linux", 0)]
NoTimes == [null |-> TRUE,
            atime |-> [k |-> "none", whole |-> 0, frac |-> 0],
            mtime |-> [k |-> "none", whole |-> 0, frac |-> 0]]

\* Operations.getattr that knows every path
Operations_getattr_AnyPath(path) == Returned(Dict(1))

\* Operations.getattr (1244-1258)
Operations_getattr(path) ==
    IF path # "/" THEN Raised(OSErrorWith(PyInt(ENOENT)))
    ELSE Returned(Dict(1))

\* what the getattr of an operations object may do for a path: the base
\* class has its own getattr, a subclass that overrides it anything
AttrOutcomes ==
    {Returned(Dict(n)) : n \in 0 .. Len(AttrMaps)}
    \cup {Returned(PyNone), Raised(OSErrorWith(PyInt(ENOENT)))}
getattr_outcomes(ops, path) ==
    IF ops = Operations THEN {Operations_getattr(path)} ELSE AttrOutcomes

\* lines 1104-1113: the record FUSE.fgetattr leaves in buf
fgetattr_stat(buf, h, sys, ns) ==
    IF ~h.raised /\ h.val.k = "dict"
    THEN set_st_attrs(memset(buf, sys), ItemsOf(h.val), ns)
    ELSE memset(buf, sys)

\* a callback that neither fills an attribute record nor decodes times; the
\* record and the times of an earlier callback are gone by then
Marshal(name, i, hname, hfh, hout, out, size, bufnull, mem, fhset) ==
    /\ MarshalCall(name, i, hname, hfh, hout, out, size, bufnull, mem, fhset)
    /\ st' = NoStat
    /\ utimes' = NoTimes

\* values a high-level open, create or opendir returns or raises
HandleOutcomes ==
    {Returned(PyInt(3)), Returned(PyInt(-1)), Returned(PyNone),
     Raised(OSErrorWith(PyInt(2))), Raised(PyException(1))}

\* outcomes of the high-level operations that only report success
PlainOutcomes == {Returned(PyNone), Raised(OSErrorWith(PyInt(2)))}

\* "fi.fh = self.operations(...); return 0" (957-958, 1096-1097, 1050-1051)
StoreHandle(hout) ==
    IF hout.raised THEN hout
    ELSE IF IsInt(hout.val) THEN Returned(PyInt(0))
    ELSE Raised(TypeError)

Stored(hout) == ~hout.raised /\ IsInt(hout.val)

\* the record after "fi.fh = self.operations(...)" if the field were cleared
\* before the handler is called
fh_after_ClearedFirst(prior, hout) ==
    IF Stored(hout) THEN [fh |-> c_uint64(hout.val.v)] ELSE NewFileInfo

\* the record after "fi.fh = self.operations(...)" (957, 1096, 1050): the
\* right-hand side is evaluated first, so a handler that raises, or a value
\* the field does not take, leaves the record as it was
fh_after(prior, hout) ==
    IF Stored(hout) THEN [fh |-> c_uint64(hout.val.v)] ELSE prior

\* an open instance: what it is open as, and the handle its handler chose
Closed == [st |-> "closed", tok |-> PyNone]
Opened(kind, tok) == [st |-> kind, tok |-> tok]

\* FUSE.open (952-958) and FUSE.create (1089-1097) on a closed instance i.
\* In raw mode the handler is given the record and may set its fh to own.
Open(i, name, hout, own) ==
    /\ name \in {"open", "create"}
    /\ Serving(name)
    /\ opens[i].st = "closed"
    /\ LET h == Operations__call__(impl, name, hout) IN
       IF raw_fi
       THEN /\ fi' = [fi EXCEPT ![i] =
                        IF h.raised \/ Truthy(h.val) THEN fi[i]
                        ELSE [fh |-> own]]
            /\ opens' = [opens EXCEPT ![i] =
                           IF h.raised \/ Truthy(h.val) THEN Closed
                           ELSE Opened("file", PyInt(own))]
            /\ Marshal(name, i, name, FiRecord(i), h, h, 0, FALSE,
                       Untouched, FALSE)
       ELSE /\ fi' = [fi EXCEPT ![i] = fh_after(fi[i], h)]
            /\ opens' = [opens EXCEPT ![i] =
                           IF Stored(h) THEN Opened("file", h.val)
                           ELSE Closed]
            /\ Marshal(name, i, name, Omitted, h, StoreHandle(h), 0, FALSE,
                       Untouched, Stored(h))

\* FUSE.opendir (1048-1051)
Opendir(i, hout) ==
    /\ Serving("opendir")
    /\ opens[i].st = "closed"
    /\ LET h == Operations__call__(impl, "opendir", hout) IN
       /\ fi' = [fi EXCEPT ![i] = fh_after(fi[i], h)]
       /\ opens' = [opens EXCEPT ![i] =
                      IF Stored(h) THEN Opened("dir", h.val) ELSE Closed]
       /\ Marshal("opendir", i, "opendir", Omitted, h, StoreHandle(h), 0,
                  FALSE, Untouched, Stored(h))

\* the methods that pass the handle on and return what the handler returns:
\* flush 988-990, fsync 996-998, lock 1116-1118, ioctl to fallocate
\* 1133-1155, and ftruncate 1099-1101, which calls the high-level truncate
FileOps ==
    {"flush", "fsync", "lock", "ftruncate", "ioctl", "poll", "write_buf",
     "read_buf", "flock", "fallocate"}
\* HighLevel with every method calling the operation of its own name
HighLevel_SameName(name) == name

HighLevel(name) == IF name = "ftruncate" THEN "truncate" ELSE name

FileOp(i, name, hout) ==
    /\ name \in FileOps
    /\ Serving(name)
    /\ opens[i].st = "file"
    /\ LET h == Operations__call__(impl, HighLevel(name), hout) IN
       Marshal(name, i, HighLevel(name), FileHandle(i), h, h, 0, FALSE,
               Untouched, FALSE)
    /\ UNCHANGED << fi, opens >>

\* FUSE.release (992-994); the kernel then drops the record
Release(i, hout) ==
    /\ Serving("release")
    /\ opens[i].st = "file"
    /\ LET h == Operations__call__(impl, "release", hout) IN
       Marshal("release", i, "release", FileHandle(i), h, h, 0, FALSE,
               Untouched, FALSE)
    /\ fi' = [fi EXCEPT ![i] = NewFileInfo]
    /\ opens' = [opens EXCEPT ![i] = Closed]

\* FUSE.fsyncdir (1075-1078)
Fsyncdir(i, hout) ==
    /\ Serving("fsyncdir")
    /\ opens[i].st = "dir"
    /\ LET h == Operations__call__(impl, "fsyncdir", hout) IN
       Marshal("fsyncdir", i, "fsyncdir", NumericHandle(i), h, h, 0, FALSE,
               Untouched, FALSE)
    /\ UNCHANGED << fi, opens >>

\* FUSE.releasedir (1071-1073); the kernel then drops the record
Releasedir(i, hout) ==
    /\ Serving("releasedir")
    /\ opens[i].st = "dir"
    /\ LET h == Operations__call__(impl, "releasedir", hout) IN
       Marshal("releasedir", i, "releasedir", NumericHandle(i), h, h, 0,
               FALSE, Untouched, FALSE)
    /\ fi' = [fi EXCEPT ![i] = NewFileInfo]
    /\ opens' = [opens EXCEPT ![i] = Closed]

\* FUSE.truncate (949-950): the high-level truncate is called without fh
Truncate(hout) ==
    /\ Serving("truncate")
    /\ LET h == Operations__call__(impl, "truncate", hout) IN
       Marshal("truncate", 0, "truncate", Omitted, h, h, 0, FALSE,
               Untouched, FALSE)
    /\ UNCHANGED << fi, opens >>

\* outcomes of the high-level getattr
GetattrOutcomes == {Returned(PyDict), Raised(OSErrorWith(PyInt(2)))}

\* lines 1107-1110: the handle FUSE.fgetattr passes for the pointer fip;
\* i = 0 is the NULL pointer the native layer passes, which is false
fgetattr_fh(fip, i) ==
    IF Truthy(fip) THEN FileHandle(i) ELSE fip

\* lines 1112-1114: set_st_attrs(st, attrs) iterates attrs.items()
fgetattr_return(h) ==
    IF h.raised THEN h
    ELSE IF h.val.k = "dict" THEN Returned(PyInt(0))
    ELSE Raised(AttributeError)

\* FUSE.getattr (897-898) is fgetattr(path, buf, None); the record at buf
\* holds 7s before the call when dirty
Getattr(path, dirty, hout) ==
    /\ Serving("getattr")
    /\ LET h == Operations__call__(impl, "getattr", hout) IN
       /\ MarshalCall("getattr", 0, "getattr", fgetattr_fh(PyNone, 0), h,
                      fgetattr_return(h), 0, FALSE, Untouched, FALSE)
       /\ st' = [path |-> path,
                 rec |-> fgetattr_stat(c_stat(_system, IF dirty THEN 7 ELSE 0),
                                       h, _system, use_ns)]
    /\ UNCHANGED << fi, opens, utimes >>

\* FUSE.fgetattr (1103-1114) for an open instance, or with fip NULL (i = 0)
Fgetattr(i, path, dirty, hout) ==
    /\ Serving("fgetattr")
    /\ i # 0 => opens[i].st = "file"
    /\ LET h == Operations__call__(impl, "getattr", hout)
           fip == IF i = 0 THEN NullPtr ELSE FiRecord(i)
       IN  /\ MarshalCall("fgetattr", i, "getattr", fgetattr_fh(fip, i), h,
                          fgetattr_return(h), 0, FALSE, Untouched, FALSE)
           /\ st' = [path |-> path,
                     rec |-> fgetattr_stat(
                                 c_stat(_system, IF dirty THEN 7 ELSE 0),
                                 h, _system, use_ns)]
    /\ UNCHANGED << fi, opens, utimes >>

\* FUSE.utimens (1120-1128): buf is NULL, or holds the access and
\* modification times the last getattr reported
Utimens(null, hout) ==
    /\ Serving("utimens")
    /\ LET h == Operations__call__(impl, "utimens", hout) IN
       MarshalCall("utimens", 0, "utimens", Omitted, h, h, 0, null,
                   Untouched, FALSE)
    /\ utimes' = IF null THEN NoTimes
             ELSE [null |-> FALSE,
                   atime |-> time_of_timespec(st.rec.times["st_atimespec"],
                                              use_ns),
                   mtime |-> time_of_timespec(st.rec.times["st_mtimespec"],
                                              use_ns)]
    /\ UNCHANGED << fi, opens, st >>

\* read without the assert statement of lines 968-969
read_return_Unchecked(size, h) ==
    IF h.raised THEN h
    ELSE IF ~Truthy(h.val) THEN Returned(PyInt(0))
    ELSE Returned(PyInt(h.val.v))

\* lines 964-972 of FUSE.read, for the outcome h of the high-level read
read_return(size, h) ==
    IF h.raised THEN h
    ELSE IF ~Truthy(h.val) THEN Returned(PyInt(0))
    ELSE IF ~(h.val.v <= size) THEN Raised(AssertionError)
    ELSE Returned(PyInt(h.val.v))

\* line 971: memmove runs when read reaches its last return
read_copy(size, h, out) ==
    IF ~h.raised /\ Truthy(h.val) /\ ~out.raised
    THEN memmove(Untouched, Bytes(h.val.v))
    ELSE Untouched

\* what the high-level read may return for a request of any size
ReadOutcomes ==
    {Returned(PyBytes(n)) : n \in 0 .. MaxSize + 1}
    \cup {Returned(PyNone), Raised(OSErrorWith(PyInt(2)))}

\* FUSE.read (960-972)
Read(i, size, hout) ==
    /\ Serving("read")
    /\ opens[i].st = "file"
    /\ LET h == Operations__call__(impl, "read", hout)
           out == read_return(size, h)
       IN  Marshal("read", i, "read", FileHandle(i), h, out, size, FALSE,
                   read_copy(size, h, out), FALSE)
    /\ UNCHANGED << fi, opens >>

\* counts the high-level write may report
WriteOutcomes ==
    {Returned(PyInt(n)) : n \in 0 .. MaxSize + 1}
    \cup {Raised(OSErrorWith(PyInt(2)))}

\* FUSE.write (974-977): the handler's result is the result
Write(i, size, hout) ==
    /\ Serving("write")
    /\ opens[i].st = "file"
    /\ LET h == Operations__call__(impl, "write", hout) IN
       Marshal("write", i, "write", FileHandle(i), h, h, size, FALSE,
               Untouched, FALSE)
    /\ UNCHANGED << fi, opens >>

\* the bytes of a result: a bytes object of n bytes, or the names of a
\* list of n one-letter names, each followed by NUL (lines 1025-1028)
Joined(n) == [j \in 1 .. 2 * n |-> IF j % 2 = 1 THEN (j + 1) \div 2 ELSE NUL]

\* xattr_copy that fills a too-small buffer as far as it goes
xattr_copy_Truncating(retsize, bufnull, size) ==
    IF bufnull THEN [ret |-> retsize, n |-> 0]
    ELSE IF retsize > size THEN [ret |-> -ERANGE, n |-> size]
    ELSE [ret |-> retsize, n |-> retsize]

\* xattr_copy that answers a size query with 0
xattr_copy_NoQuery(retsize, bufnull, size) ==
    IF bufnull THEN [ret |-> 0, n |-> 0]
    ELSE IF retsize > size THEN [ret |-> -ERANGE, n |-> 0]
    ELSE [ret |-> retsize, n |-> retsize]

\* xattr_copy that keeps a terminator's room free in the buffer
xattr_copy_RoomForNUL(retsize, bufnull, size) ==
    IF bufnull THEN [ret |-> retsize, n |-> 0]
    ELSE IF retsize >= size THEN [ret |-> -ERANGE, n |-> 0]
    ELSE [ret |-> retsize, n |-> retsize]

\* lines 1009-1022 and 1030-1042: the value returned and the number of
\* bytes moved into the buffer, for a result of retsize bytes
xattr_copy(retsize, bufnull, size) ==
    IF bufnull THEN [ret |-> retsize, n |-> 0]
    ELSE IF retsize > size THEN [ret |-> -ERANGE, n |-> 0]
    ELSE [ret |-> retsize, n |-> retsize]

\* what the high-level getxattr may return
GetxattrOutcomes ==
    {Returned(PyBytes(n)) : n \in 0 .. MaxSize + 1}
    \cup {Returned(PyNone), Raised(OSErrorWith(PyInt(2)))}

\* FUSE.getxattr (1005-1022); len(ret) raises TypeError for None
Getxattr(size, bufnull, hout) ==
    /\ Serving("getxattr")
    /\ LET h == Operations__call__(impl, "getxattr", hout)
           ok == ~h.raised /\ h.val.k = "bytes"
           c == xattr_copy(IF ok THEN h.val.v ELSE 0, bufnull, size)
           out == IF h.raised THEN h
                  ELSE IF ~ok THEN Raised(TypeError)
                  ELSE Returned(PyInt(c.ret))
           mem == IF ok THEN memmove(Untouched, SubSeq(Bytes(h.val.v), 1, c.n))
                  ELSE Untouched
       IN  Marshal("getxattr", 0, "getxattr", Omitted, h, out, size, bufnull,
                   mem, FALSE)
    /\ UNCHANGED << fi, opens >>

\* what the high-level listxattr may return: a list of names, or None
ListxattrOutcomes ==
    {Returned([k |-> "list", v |-> n, a |-> ""]) :
        n \in 0 .. (MaxSize + 2) \div 2}
    \cup {Returned(PyNone), Raised(OSErrorWith(PyInt(2)))}

\* line 1025: "self.operations('listxattr', ...) or ''"
NamesOf(val) == IF Truthy(val) THEN val.v ELSE 0

\* FUSE.listxattr (1024-1042)
Listxattr(size, bufnull, hout) ==
    /\ Serving("listxattr")
    /\ LET h == Operations__call__(impl, "listxattr", hout)
           ret == IF h.raised THEN << >> ELSE Joined(NamesOf(h.val))
           c == xattr_copy(Len(ret), bufnull, size)
           out == IF h.raised THEN h ELSE Returned(PyInt(c.ret))
       IN  Marshal("listxattr", 0, "listxattr", Omitted, h, out, size,
                   bufnull, memmove(Untouched, SubSeq(ret, 1, c.n)), FALSE)
    /\ UNCHANGED << fi, opens >>

\* length of the Python slice ret[:stop] of a sequence of n items
SliceLen(n, stop) ==
    IF stop < 0 THEN (IF n + stop > 0 THEN n + stop ELSE 0)
    ELSE IF stop < n THEN stop ELSE n

\* line 905: create_string_buffer(ret[:bufsize - 1]) appends a NUL
readlink_data(n, bufsize) ==
    Append(SubSeq(Bytes(n), 1, SliceLen(n, bufsize - 1)), NUL)

\* what the high-level readlink may return
ReadlinkOutcomes ==
    {Returned(PyStr(n)) : n \in 0 .. MaxSize + 1}
    \cup {Returned(PyNone), Raised(OSErrorWith(PyInt(2)))}

\* FUSE.readlink (900-907); None has no encode()
Readlink(bufsize, hout) ==
    /\ Serving("readlink")
    /\ LET h == Operations__call__(impl, "readlink", hout)
           ok == ~h.raised /\ h.val.k = "str"
           out == IF h.raised THEN h
                  ELSE IF ~ok THEN Raised(AttributeError)
                  ELSE Returned(PyInt(0))
           mem == IF ok THEN memmove(Untouched, readlink_data(h.val.v, bufsize))
                  ELSE Untouched
       IN  Marshal("readlink", 0, "readlink", Omitted, h, out, bufsize,
                   FALSE, mem, FALSE)
    /\ UNCHANGED << fi, opens >>

\* what the high-level readdir may return: n entries, None, or a raise
ReaddirOutcomes(most) ==
    {Returned([k |-> "list", v |-> n, a |-> ""]) : n \in 0 .. most}
    \cup {Returned(PyNone), Raised(OSErrorWith(PyInt(2)))}

\* after_filler for a loop without the break statement
after_filler_NoBreak(full, pulled) == "loop"

\* lines 1066-1067: "if filler(...) != 0: break"; the filler reports a
\* full buffer on call number full
after_filler(full, pulled) == IF pulled = full THEN "break" ELSE "loop"

\* FUSE.readdir (1053-1069) up to the start of its loop: the high-level
\* readdir is called with the numeric handle; None is not iterable
ReaddirCall(i, hout, full) ==
    /\ Serving("readdir")
    /\ opens[i].st = "dir"
    /\ LET h == Operations__call__(impl, "readdir", hout) IN
       IF h.raised \/ h.val.k # "list"
       THEN /\ Marshal("readdir", i, "readdir", NumericHandle(i), h,
                       IF h.raised THEN h ELSE Raised(TypeError), 0, FALSE,
                       Untouched, FALSE)
       ELSE /\ cb' = [op |-> "readdir", inst |-> i, hname |-> "readdir",
                      hfh |-> NumericHandle(i), hout |-> h, size |-> 0,
                      bufnull |-> FALSE, mem |-> Untouched,
                      ret |-> NoOutcome, fhset |-> FALSE]
            /\ rd' = [pc |-> "loop", entries |-> h.val.v, full |-> full,
                      pulled |-> 0, delivered |-> << >>]
            /\ UNCHANGED << critical_exception, exit_req, xq, st, utimes >>
            /\ MarshalFrame
    /\ UNCHANGED << fi, opens >>

\* one round of the loop: the next item is taken from the handler's
\* result and passed to the filler
ReaddirNext ==
    /\ rd.pc = "loop"
    /\ rd.pulled < rd.entries
    /\ rd' = [rd EXCEPT !.pulled = @ + 1,
                        !.delivered = Append(@, rd.pulled + 1),
                        !.pc = after_filler(rd.full, rd.pulled + 1)]
    /\ UNCHANGED << critical_exception, exit_req, fi, opens, cb, xq, st,
                    utimes >>
    /\ MarshalFrame

\* line 1069: "return 0" after the loop ended or was left
ReaddirReturn ==
    /\ \/ rd.pc = "break"
       \/ rd.pc = "loop" /\ rd.pulled = rd.entries
    /\ cb' = [cb EXCEPT !.ret = Envelope("readdir", Returned(PyInt(0)))]
    /\ rd' = [rd EXCEPT !.pc = "idle"]
    /\ UNCHANGED << critical_exception, exit_req, fi, opens, xq, st,
                    utimes >>
    /\ MarshalFrame

\* nothing has been marshalled
MarshalIdle ==
    /\ fi = [i \in Instances |-> NewFileInfo]
    /\ opens = [i \in Instances |-> Closed]
    /\ cb = NoCallback
    /\ rd = NoReaddir
    /\ xq = NoQuery
    /\ st = NoStat
    /\ utimes = NoTimes

\* the session once FUSE.__init__ has built the table for ops and the
\* native loop serves callbacks (no init handler, libfuse 2.9)
ServingOn(sys, ops) ==
    /\ version = 29
    /\ fuse_version_minor = get_fuse_version(29).minor
    /\ _system = sys
    /\ impl = ops
    /\ fuse_ops = BuiltTable(ops, get_fuse_version(29).minor)
    /\ critical_exception = PyNone
    /\ exit_req = "none"
    /\ sigint = "SIG_DFL"
    /\ main_thread = TRUE
    /\ old_handler = PyHandler("py_handler")
    /\ err = 0
    /\ mpc = "main_serve"
    /\ result = Pending
    /\ thr = [t \in Threads |-> Idle]
    /\ calls = 0
    /\ private_data = PyNone

\* the same on Linux
ServingSession(ops) == ServingOn("Linux", ops)

\* the operations the marshalling specifications serve
ServedOps ==
    {"getattr", "readlink", "truncate", "open", "read", "write", "flush",
     "release", "fsync", "getxattr", "listxattr", "opendir", "readdir",
     "releasedir", "fsyncdir", "create", "lock", "ioctl", "poll",
     "write_buf", "read_buf", "flock", "fallocate"}

-----------------------------------------------------------------------------
(* Specification of a session *)

\* versions libfuse may report
SessionVersions == {25, 29}

\* operations objects: a subclass of Operations that defines mkdir, one
\* that also defines init and destroy, and one that has a method named utime
SessionImpls ==
    {Subclass([n \in {"mkdir"} |-> "method"]),
     Subclass([n \in {"mkdir", "init", "destroy"} |-> "method"]),
     Subclass([n \in {"utime"} |-> "method"])}

\* SIGINT dispositions and calling thread at the time of the mount call
SignalStates ==
    {<<d, TRUE>> : d \in {"SIG_IGN", "py_handler", "c_handler"}}
    \cup {<<"py_handler", FALSE>>}

Init ==
    /\ version \in SessionVersions
    /\ fuse_version_minor = -1
    /\ _system \in {"Linux", "OpenBSD"}
    /\ impl \in SessionImpls
    /\ fuse_ops = NoTable
    /\ critical_exception = PyNone
    /\ exit_req = "none"
    /\ \E sg \in SignalStates : sigint = sg[1] /\ main_thread = sg[2]
    /\ old_handler = "unset"
    /\ err = 0
    /\ mpc = "import"
    /\ result = Pending
    /\ thr = [t \in Threads |-> Idle]
    /\ calls = 0
    /\ private_data = PyNone
    /\ raw_fi = FALSE
    /\ use_ns = FALSE
    /\ MarshalIdle

Next ==
    \/ Import
    \/ BuildTable
    \/ OverrideSignal
    \/ StartLoop
    \/ MountFails
    \/ \E t \in Threads : CallInit(t)
    \/ SkipInit
    \/ \E t \in Threads : \E name \in AllNames : CallOp(t, name)
    \/ StopLoop
    \/ \E t \in Threads : CallDestroy(t)
    \/ SkipDestroy
    \/ \E t \in Threads : RunFunc(t)
    \/ \E t \in Threads : RecordCritical(t)
    \/ \E t \in Threads : FuseExit(t)
    \/ \E t \in Threads : Return(t)
    \/ LoopReturn
    \/ RestoreSignal
    \/ Teardown

Spec == Init /\ [][Next]_vars

-----------------------------------------------------------------------------
(* Specification of dispatch-table construction alone: the version check   *)
(* and the table loop, over many operations objects and versions.          *)

TableVersions == {25, 26, 28, 29, 30, 210, 1000}

TableImpls ==
    {Subclass([n \in {"getattr", "truncate", "mkdir", "poll",
                      "flag_nullpath_ok", "utime"} |->
                  IF n = "flag_nullpath_ok" THEN flag
                  ELSE IF n = "utime" THEN ut
                  ELSE f[n]]) :
        f \in [{"getattr", "truncate", "mkdir", "poll"} ->
                  {"absent", "none", "ignored", "method"}],
        flag \in {"absent", "int"},
        ut \in {"absent", "method"}}

TableInit ==
    /\ version \in TableVersions
    /\ fuse_version_minor = -1
    /\ _system = "Linux"
    /\ impl \in TableImpls
    /\ fuse_ops = NoTable
    /\ critical_exception = PyNone
    /\ exit_req = "none"
    /\ sigint = "py_handler"
    /\ main_thread = TRUE
    /\ old_handler = "unset"
    /\ err = 0
    /\ mpc = "import"
    /\ result = Pending
    /\ thr = [t \in Threads |-> Idle]
    /\ calls = 0
    /\ private_data = PyNone
    /\ raw_fi = FALSE
    /\ use_ns = FALSE
    /\ MarshalIdle

TableNext == Import \/ BuildTable

TableSpec == TableInit /\ [][TableNext]_vars

-----------------------------------------------------------------------------
(* Specification of the handle model: opens, the calls that carry a handle *)
(* and their handle-less counterparts, in raw and in numeric mode.         *)

\* operations objects that define or leave out truncate and getattr
HandleImpls ==
    {Subclass([n \in ServedOps |->
                  IF n = "truncate" THEN t
                  ELSE IF n = "getattr" THEN g
                  ELSE "method"]) :
        t \in {"method", "ignored"}, g \in {"method", "none"}}

HandleInit ==
    /\ \E ops \in HandleImpls : ServingSession(ops)
    /\ raw_fi \in BOOLEAN
    /\ use_ns = FALSE
    /\ MarshalIdle

HandleNext ==
    \/ \E i \in Instances : \E name \in {"open", "create"} :
          \E hout \in HandleOutcomes : \E own \in {0, 3} :
             Open(i, name, hout, own)
    \/ \E i \in Instances : \E hout \in HandleOutcomes : Opendir(i, hout)
    \/ \E i \in Instances : \E name \in FileOps : \E hout \in PlainOutcomes :
          FileOp(i, name, hout)
    \/ \E i \in Instances : \E hout \in PlainOutcomes : Release(i, hout)
    \/ \E i \in Instances : \E hout \in PlainOutcomes : Fsyncdir(i, hout)
    \/ \E i \in Instances : \E hout \in PlainOutcomes : Releasedir(i, hout)
    \/ \E hout \in PlainOutcomes : Truncate(hout)
    \/ \E hout \in GetattrOutcomes : Getattr("/", FALSE, hout)
    \/ \E i \in Instances \cup {0} : \E hout \in GetattrOutcomes :
          Fgetattr(i, "/", FALSE, hout)
    \/ \E i \in Instances : Read(i, 1, Returned(PyBytes(1)))
    \/ \E i \in Instances : Write(i, 1, Returned(PyInt(1)))
    \/ \E i \in Instances : ReaddirCall(i, Returned(PyNone), 0)

HandleSpec == HandleInit /\ [][HandleNext]_vars

-----------------------------------------------------------------------------
(* Specification of opening: open, create, opendir and the releases, in    *)
(* numeric mode, on records that hold zero or something else in fh before  *)
(* the call.                                                               *)

\* what the caller's record holds in fh when the adapter is handed it
PriorRecords == {NewFileInfo, [fh |-> 9]}

OpenInit ==
    /\ ServingSession(Subclass([n \in ServedOps |-> "method"]))
    /\ raw_fi = FALSE
    /\ use_ns = FALSE
    /\ fi \in [Instances -> PriorRecords]
    /\ opens = [i \in Instances |-> Closed]
    /\ cb = NoCallback
    /\ rd = NoReaddir
    /\ xq = NoQuery
    /\ st = NoStat
    /\ utimes = NoTimes

OpenNext ==
    \/ \E i \in Instances : \E name \in {"open", "create"} :
          \E hout \in HandleOutcomes : Open(i, name, hout, 0)
    \/ \E i \in Instances : \E hout \in HandleOutcomes : Opendir(i, hout)
    \/ \E i \in Instances : \E hout \in PlainOutcomes : Release(i, hout)
    \/ \E i \in Instances : \E hout \in PlainOutcomes : Releasedir(i, hout)

OpenSpec == OpenInit /\ [][OpenNext]_vars

-----------------------------------------------------------------------------
(* Specification of the buffer protocol: the methods that copy a result    *)
(* into a buffer of the caller, for every result length and capacity.      *)

Sizes == 0 .. MaxSize

BufInit ==
    /\ ServingSession(Subclass([n \in ServedOps |-> "method"]))
    /\ raw_fi = FALSE
    /\ fi = [i \in Instances |-> [fh |-> 3]]
    /\ opens = [i \in Instances |->
                   Opened(IF i = 1 THEN "file" ELSE "dir", PyInt(3))]
    /\ cb = NoCallback
    /\ rd = NoReaddir
    /\ xq = NoQuery
    /\ use_ns = FALSE
    /\ st = NoStat
    /\ utimes = NoTimes

BufNext ==
    \/ \E size \in Sizes : \E bufnull \in BOOLEAN :
          \E hout \in GetxattrOutcomes : Getxattr(size, bufnull, hout)
    \/ \E size \in Sizes : \E bufnull \in BOOLEAN :
          \E hout \in ListxattrOutcomes : Listxattr(size, bufnull, hout)
    \/ \E bufsize \in Sizes : \E hout \in ReadlinkOutcomes :
          Readlink(bufsize, hout)
    \/ \E size \in Sizes : \E hout \in ReadOutcomes : Read(1, size, hout)
    \/ \E size \in Sizes : \E hout \in WriteOutcomes : Write(1, size, hout)
    \/ \E i \in Instances : \E hout \in ReaddirOutcomes(MaxEntries) :
          \E full \in 0 .. MaxEntries : ReaddirCall(i, hout, full)
    \/ ReaddirNext
    \/ ReaddirReturn

BufSpec == BufInit /\ [][BufNext]_vars

-----------------------------------------------------------------------------
(* Specification of attribute marshalling: getattr and fgetattr fill the   *)
(* attribute record, utimens decodes the time pairs it is handed.          *)

Paths == {"/", "/missing"}

\* the base class itself, and a subclass with its own getattr and utimens
AttrImpls ==
    {Operations, Subclass([n \in {"getattr", "utimens"} |-> "method"])}

AttrInit ==
    /\ \E sys \in {"Linux", "OpenBSD"} : \E ops \in AttrImpls :
          ServingOn(sys, ops)
    /\ raw_fi = FALSE
    /\ use_ns \in BOOLEAN
    /\ MarshalIdle

AttrNext ==
    \/ \E path \in Paths : \E dirty \in BOOLEAN :
          \E hout \in getattr_outcomes(impl, path) :
             Getattr(path, dirty, hout)
    \/ \E path \in Paths : \E dirty \in BOOLEAN :
          \E hout \in getattr_outcomes(impl, path) :
             Fgetattr(0, path, dirty, hout)
    \/ \E null \in BOOLEAN : \E hout \in PlainOutcomes : Utimens(null, hout)

AttrSpec == AttrInit /\ [][AttrNext]_vars

-----------------------------------------------------------------------------
(* Properties *)

\* thread t is at the end of _wrapper for an operation other than init
AtRet(t) == thr[t].pc = "ret" /\ thr[t].op # "init"

\* the exception func raised in thread t, as _wrapper classifies it
RaisedOSError(t) == thr[t].out.raised /\ thr[t].out.val.k = "OSError"
RaisedOrdinary(t) == thr[t].out.raised /\ thr[t].out.val.k = "Exception"
RaisedBase(t) == thr[t].out.raised /\ thr[t].out.val.k = "BaseException"

\* C1: for every operation other than init, when the handler raises an
\* OSError whose errno is an integer e, _wrapper returns -e if e > 0 and
\* -EINVAL if e <= 0.
C1_DomainErrorCode ==
    \A t \in Threads :
        AtRet(t) /\ RaisedOSError(t) /\ thr[t].out.val.a = "int" =>
            IF thr[t].out.val.v > 0
            THEN thr[t].ret = Returned(PyInt(0 - thr[t].out.val.v))
            ELSE thr[t].ret = Returned(PyInt(0 - EINVAL))

\* one callback has turned errno 2 into -2 while another has turned a
\* non-positive errno into -EINVAL
C1_Witness ==
    \E t, u \in Threads :
        /\ AtRet(t) /\ RaisedOSError(t) /\ thr[t].out.val.a = "int"
        /\ thr[t].out.val.v = 2 /\ thr[t].ret.val = PyInt(-2)
        /\ AtRet(u) /\ RaisedOSError(u) /\ thr[u].out.val.a = "int"
        /\ thr[u].out.val.v <= 0 /\ thr[u].ret.val = PyInt(-22)

\* C2: for every operation other than init, when the handler raises an
\* OSError whose errno is not an integer, or any other ordinary Exception,
\* _wrapper returns -EINVAL (never 0, never another code).
C2_NoErrnoGivesEINVAL ==
    \A t \in Threads :
        /\ AtRet(t)
        /\ \/ RaisedOSError(t) /\ thr[t].out.val.a # "int"
           \/ RaisedOrdinary(t)
        => thr[t].ret = Returned(PyInt(0 - EINVAL))

\* one callback ended on an ordinary Exception and another on an OSError
\* with a non-integer errno, both returning -22
C2_Witness ==
    \E t, u \in Threads :
        /\ AtRet(t) /\ RaisedOrdinary(t) /\ thr[t].ret.val = PyInt(-22)
        /\ AtRet(u) /\ RaisedOSError(u) /\ thr[u].out.val.a # "int"
        /\ thr[u].ret.val = PyInt(-22)

\* C3: when a BaseException that is not an Exception escapes the handler,
\* _wrapper stores it in the critical-failure slot, then requests session
\* termination through fuse_exit, and returns -EFAULT; the slot is written
\* before termination is requested.
C3_CriticalState ==
    \A t \in Threads :
        RaisedBase(t) =>
            /\ thr[t].pc \in {"except", "exiting", "ret"}
            /\ thr[t].pc \in {"exiting", "ret"} =>
                   critical_exception # PyNone
            /\ thr[t].pc = "ret" =>
                   /\ exit_req # "none"
                   /\ thr[t].ret = Returned(PyInt(0 - EFAULT))

C3_CriticalStep ==
    /\ \A t \in Threads :
          RaisedBase(t) /\ thr[t].pc = "except" /\ thr'[t] # thr[t] =>
              /\ thr'[t].pc = "exiting"
              /\ critical_exception' = thr[t].out.val
              /\ exit_req' = exit_req
    /\ \A t \in Threads :
          RaisedBase(t) /\ thr[t].pc = "exiting" /\ thr'[t] # thr[t] =>
              /\ thr'[t].pc = "ret"
              /\ exit_req' # "none"
    /\ exit_req' # exit_req => critical_exception # PyNone

C3_CriticalFaultPath == [](C3_CriticalState) /\ [][C3_CriticalStep]_vars

\* a callback that raised a BaseException is about to return -EFAULT with
\* the fault in the slot and termination requested
C3_Witness ==
    \E t \in Threads :
        /\ AtRet(t) /\ RaisedBase(t)
        /\ critical_exception = thr[t].out.val
        /\ exit_req # "none"
        /\ thr[t].ret.val = PyInt(-14)

\* C4: for every operation other than init, an OSError (whatever its errno)
\* and an ordinary Exception are handled without writing the
\* critical-failure slot and without requesting termination, and the
\* session goes on serving; the slot and the termination request change
\* only in a callback that is on the critical path.
C4_Recoverable(t) ==
    thr'[t].op # "init" /\ thr'[t].out.raised
        /\ thr'[t].out.val.k \in {"OSError", "Exception"}

C4_Step ==
    /\ \A t \in Threads :
          thr[t].pc = "called" /\ thr'[t] # thr[t] /\ C4_Recoverable(t) =>
              /\ thr'[t].pc = "ret"
              /\ UNCHANGED << critical_exception, exit_req, mpc >>
    /\ \A t \in Threads :
          /\ AtRet(t) /\ thr[t].op # "destroy" /\ thr'[t] # thr[t]
          /\ thr[t].out.raised
          /\ thr[t].out.val.k \in {"OSError", "Exception"}
          => UNCHANGED << critical_exception, exit_req, mpc >>
    /\ (critical_exception' # critical_exception \/ exit_req' # exit_req) =>
          \E t \in Threads :
              /\ thr[t].pc \in {"except", "exiting"}
              /\ thr'[t] # thr[t]
              /\ thr[t].op = "init" \/ RaisedBase(t)

C4_SessionContinues == [][C4_Step]_vars

\* two callbacks have failed with a domain error and an ordinary Exception
\* and the session is still being served with an empty slot
C4_Witness ==
    /\ mpc = "main_serve"
    /\ calls = 2
    /\ critical_exception = PyNone
    /\ exit_req = "none"
    /\ \E t, u \in Threads :
          /\ AtRet(t) /\ RaisedOSError(t)
          /\ AtRet(u) /\ RaisedOrdinary(u)

\* C5: every invocation of _wrapper for an operation other than init ends
\* by returning a plain integer, for every handler outcome, and no
\* exception leaves _wrapper.
C5_AlwaysPlainInteger ==
    \A t \in Threads :
        AtRet(t) => ~thr[t].ret.raised /\ thr[t].ret.val.k = "int"

\* the native loop has been entered and fuse_main_real has returned
LoopEntered == old_handler # "unset"

\* C6: after fuse_main_real has returned, FUSE(...) raises the recorded
\* critical fault if the slot is set, else RuntimeError if the status is
\* non-zero, and returns normally only with an empty slot and status 0; no
\* critical fault is raised before the native loop has exited.
C6_MountOutcome ==
    /\ mpc = "done" /\ LoopEntered =>
          result = IF critical_exception # PyNone
                   THEN RaisedOut(critical_exception)
                   ELSE IF err # 0 THEN RaisedOut(RuntimeError(err))
                   ELSE ReturnedNormally
    /\ result.val.k = "BaseException" => mpc = "done"

\* C7: the critical-failure slot is written at most once per session: once
\* it holds a fault it keeps that fault.
C7_Step == critical_exception # PyNone =>
               critical_exception' = critical_exception

C7_WriteOnce == [][C7_Step]_vars

\* C8: the critical-failure slot is empty at mount, is never reset to empty
\* once set, and a session whose slot is set ends with the mount call
\* raising, also when the native status is 0.
C8_State ==
    /\ mpc \in {"import", "construct", "set_signal", "mount"} =>
          critical_exception = PyNone
    /\ mpc = "done" /\ critical_exception # PyNone =>
          result.state = "raised"

C8_Step == critical_exception # PyNone => critical_exception' # PyNone

C8_SlotNeverCleared == [](C8_State) /\ [][C8_Step]_vars

\* the mount call has raised the recorded fault although the native status
\* was 0
C8_Witness ==
    /\ mpc = "done"
    /\ critical_exception # PyNone
    /\ err = 0
    /\ result = RaisedOut(critical_exception)

\* the negated error codes the envelope produces
NegatedCodes ==
    {PyInt(0 - EINVAL), PyInt(0 - EFAULT)}
    \cup {PyInt(0 - e.v) : e \in {x \in ErrnoValues : x.k = "int" /\ x.v > 0}}

\* C9 as claimed: when the operation is init, whatever the handler returns
\* or raises, _wrapper does not return a negated error code.
C9_InitNeverNegatedCode ==
    \A t \in Threads :
        thr[t].pc = "ret" /\ thr[t].op = "init" =>
            thr[t].ret.val \notin NegatedCodes

\* C9 as amended: when the operation is init, a returned value is handed
\* on unchanged (false values as 0) and never turned into -errno or
\* -EINVAL, and it is what the native layer stores as private data; any
\* exception init raises takes the critical path: slot written,
\* termination requested, -EFAULT returned.
C9_State ==
    \A t \in Threads :
        thr[t].pc = "ret" /\ thr[t].op = "init" =>
            IF thr[t].out.raised
            THEN /\ thr[t].ret = Returned(PyInt(0 - EFAULT))
                 /\ critical_exception = thr[t].out.val
                 /\ exit_req # "none"
            ELSE /\ thr[t].ret.val =
                        (IF thr[t].out.val \in {PyNone, PyInt(0)}
                         THEN PyInt(0) ELSE thr[t].out.val)
                 /\ critical_exception = PyNone
                 /\ exit_req = "none"

C9_Step ==
    \A t \in Threads :
        thr[t].pc = "ret" /\ thr[t].op = "init" /\ thr'[t] # thr[t] =>
            private_data' = thr[t].ret.val

C9_InitEscalates == [](C9_State) /\ [][C9_Step]_vars

\* init raised an OSError with errno 2 and the envelope is about to return
\* -EFAULT with the error in the slot
C9_Witness ==
    \E t \in Threads :
        /\ thr[t].pc = "ret" /\ thr[t].op = "init"
        /\ thr[t].out = Raised(OSErrorWith(PyInt(2)))
        /\ thr[t].ret.val = PyInt(-14)
        /\ critical_exception = thr[t].out.val

\* the operation a callback slot stands for
Corresponding(slot) ==
    CASE slot = "ftruncate" -> "truncate"
      [] slot = "fgetattr" -> "getattr"
      [] OTHER -> slot

\* the implementation defines the operation: it has a method of that name
\* that is not a marked placeholder of the base class
Defines(ops, op) == ops[op] = "method"

\* C10: after dispatch-table construction, every callback slot of the
\* negotiated protocol version is installed if and only if the
\* implementation defines the corresponding operation; a marked placeholder
\* inherited from Operations leaves the slot null.
C10_InstalledIffDefined ==
    fuse_ops # NoTable =>
        \A n \in CallbackNames(fuse_version_minor) :
            /\ fuse_ops[n] \in {"installed", "null"}
            /\ fuse_ops[n] = "installed" <=> Defines(impl, Corresponding(n))

\* a table for version 2.9 in which poll and ftruncate are installed and
\* the inherited mkdir placeholder is left null
C10_Witness ==
    /\ fuse_ops # NoTable
    /\ fuse_version_minor = 9
    /\ impl["mkdir"] = "ignored" /\ fuse_ops["mkdir"] = "null"
    /\ impl["poll"] = "method" /\ fuse_ops["poll"] = "installed"
    /\ impl["truncate"] = "method" /\ fuse_ops["ftruncate"] = "installed"
    /\ impl["getattr"] = "none" /\ fuse_ops["fgetattr"] = "null"

\* a handle is passed to the operation, in either mode
Present(h) == h.k \in {"int", "fuse_file_info"}
\* no handle is passed: the argument is left out, None, or a NULL pointer
Absent(h) == h \in {Omitted, PyNone, NullPtr}

\* C11: the ftruncate and fgetattr slots are installed exactly when the
\* implementation defines truncate and getattr; ftruncate calls the
\* high-level truncate with the handle and truncate calls it without one;
\* fgetattr calls the high-level getattr with the handle when the file-info
\* pointer is present; getattr, and fgetattr with a null file-info pointer,
\* call it with an absent handle.
C11_SameHighLevelOperation ==
    /\ fuse_ops["ftruncate"] = "installed" <=> Defines(impl, "truncate")
    /\ fuse_ops["fgetattr"] = "installed" <=> Defines(impl, "getattr")
    /\ cb.op = "ftruncate" =>
          /\ cb.hname = "truncate"
          /\ Present(cb.hfh)
          /\ cb.hfh = FileHandle(cb.inst)
    /\ cb.op = "truncate" => cb.hname = "truncate" /\ cb.hfh = Omitted
    /\ cb.op = "fgetattr" /\ cb.inst # 0 =>
          /\ cb.hname = "getattr"
          /\ Present(cb.hfh)
          /\ cb.hfh = FileHandle(cb.inst)
    /\ cb.op = "getattr" \/ (cb.op = "fgetattr" /\ cb.inst = 0) =>
          cb.hname = "getattr" /\ Absent(cb.hfh)

\* ftruncate on an instance opened with handle 3 reached the high-level
\* truncate, which returned, with that handle
C11_Witness ==
    /\ cb.op = "ftruncate"
    /\ fuse_ops["ftruncate"] = "installed"
    /\ cb.hname = "truncate"
    /\ cb.hfh = PyInt(3)
    /\ cb.hout = Returned(PyNone)
    /\ cb.ret = Returned(PyInt(0))

\* the last callback was getxattr or listxattr and its handler produced a
\* result: bytes for getxattr, a list of names or None for listxattr
XattrResult ==
    /\ cb.op \in {"getxattr", "listxattr"}
    /\ ~cb.hout.raised
    /\ cb.op = "getxattr" => cb.hout.val.k = "bytes"

\* the bytes of that result, and the length the caller must provide
ResultBytes ==
    IF cb.op = "getxattr" THEN Bytes(cb.hout.val.v)
    ELSE Joined(NamesOf(cb.hout.val))
ResultLen == Len(ResultBytes)

\* C12: getxattr and listxattr called with a non-null buffer whose declared
\* capacity is smaller than the length of the result return -ERANGE and
\* leave every byte of the caller's buffer as it was.
C12_TooSmallNoPartialWrite ==
    XattrResult /\ ~cb.bufnull /\ cb.size < ResultLen =>
        /\ cb.ret = Returned(PyInt(-ERANGE))
        /\ cb.mem = Untouched

\* listxattr with a buffer of 2 bytes for two names, which need 4
C12_Witness ==
    /\ cb.op = "listxattr"
    /\ ~cb.bufnull
    /\ cb.size = 2
    /\ ~cb.hout.raised /\ ResultLen = 4
    /\ cb.ret = Returned(PyInt(-ERANGE))
    /\ cb.mem = Untouched

\* C13 as stated: a getxattr or listxattr call whose buffer is null or
\* whose declared capacity is zero returns the full length of the result
\* and writes nothing to the buffer.
C13_QueryOnNullOrZeroCapacity ==
    XattrResult /\ (cb.bufnull \/ cb.size = 0) =>
        /\ cb.ret = Returned(PyInt(ResultLen))
        /\ cb.mem = Untouched

\* C13, amended: a getxattr or listxattr call with a null buffer, whatever
\* capacity is declared, returns the full length of the result and writes
\* nothing; a non-null buffer of declared capacity zero is an ordinary
\* buffer: nothing is written, and the call returns -ERANGE unless the
\* result is empty, when it returns 0.
C13_QueryOnNullBuffer ==
    /\ XattrResult /\ cb.bufnull =>
          /\ cb.ret = Returned(PyInt(ResultLen))
          /\ cb.mem = Untouched
    /\ XattrResult /\ ~cb.bufnull /\ cb.size = 0 =>
          /\ cb.ret = Returned(PyInt(IF ResultLen = 0 THEN 0 ELSE -ERANGE))
          /\ cb.mem = Untouched

\* getxattr with a null buffer and a declared capacity of 1 answers with
\* the length 2 of the value
C13_Witness ==
    /\ cb.op = "getxattr"
    /\ cb.bufnull
    /\ cb.size = 1
    /\ cb.hout = Returned(PyBytes(2))
    /\ cb.ret = Returned(PyInt(2))
    /\ cb.mem = Untouched

\* the last callback supplied a buffer of exactly the capacity that an
\* earlier size query of the same operation, with the same handler result,
\* had returned
SizedByQuery ==
    /\ XattrResult
    /\ ~cb.bufnull
    /\ xq.op = cb.op
    /\ xq.hout = cb.hout
    /\ xq.ret = Returned(PyInt(cb.size))

\* the whole result, and nothing else, is in the buffer and its length is
\* returned
CopiedInFull ==
    /\ cb.ret = Returned(PyInt(ResultLen))
    /\ cb.mem = memmove(Untouched, ResultBytes)

\* C14: for getxattr and listxattr, a size query returning n followed by a
\* call with a buffer of capacity n, the handler returning the same result,
\* writes the same bytes and returns the same count as one call with any
\* capacity of at least n: in each case exactly the n bytes of the result
\* are written and n is returned.
C14_QueryThenSizedBuffer ==
    /\ SizedByQuery => cb.size = ResultLen /\ CopiedInFull
    /\ XattrResult /\ ~cb.bufnull /\ cb.size >= ResultLen => CopiedInFull

\* listxattr of one name: the query returned 2 and the call with a buffer
\* of 2 bytes wrote the name and its terminator
C14_Witness ==
    /\ SizedByQuery
    /\ cb.op = "listxattr"
    /\ cb.size = 2
    /\ cb.ret = Returned(PyInt(2))
    /\ cb.mem[1] = 1 /\ cb.mem[2] = NUL /\ cb.mem[3] = Untouched[3]

\* FUSE.readdir has returned for a handler that produced a listing
ReaddirDone ==
    /\ cb.op = "readdir"
    /\ ~cb.hout.raised /\ cb.hout.val.k = "list"
    /\ rd.pc = "idle"
    /\ cb.ret # NoOutcome

C15_State ==
    /\ rd.delivered = [j \in 1 .. rd.pulled |-> j]
    /\ rd.pc = "loop" => rd.full \notin 1 .. rd.pulled
    /\ rd.pc = "break" => rd.pulled = rd.full
    /\ ReaddirDone =>
          /\ cb.ret = Returned(PyInt(0))
          /\ Len(rd.delivered) =
                 IF rd.full \in 1 .. rd.entries THEN rd.full ELSE rd.entries

C15_Step ==
    rd.pc = "break" =>
        /\ rd'.pulled = rd.pulled
        /\ rd'.delivered = rd.delivered
        /\ rd'.pc \in {"break", "idle"}

\* C15: readdir passes the entries of the high-level operation to the
\* filler one at a time in production order; when the filler returns
\* non-zero on the k-th entry exactly k entries have been delivered, no
\* further entry is requested from the handler or passed to the filler, and
\* readdir returns 0; when the filler never returns non-zero all entries
\* are delivered and 0 is returned.
C15_StopsAtSaturation == [](C15_State) /\ [][C15_Step]_vars

\* the filler reported a full buffer on the 3rd of 5 entries: 3 entries
\* were requested and delivered, and readdir returned 0
C15_Witness ==
    /\ ReaddirDone
    /\ rd.entries = 5
    /\ rd.full = 3
    /\ rd.pulled = 3
    /\ rd.delivered = << 1, 2, 3 >>
    /\ cb.ret = Returned(PyInt(0))

\* the smaller of two numbers
Min(x, y) == IF x < y THEN x ELSE y

\* C16: for every link target and every buffer capacity c, c = 0 and c = 1
\* included, readlink writes the first min(len(target), c - 1) bytes of the
\* encoded target followed by one NUL, never writes more than c bytes, and
\* returns 0.
C16_ReadlinkWithinCapacity ==
    cb.op = "readlink" /\ ~cb.hout.raised /\ cb.hout.val.k = "str" =>
        /\ cb.ret = Returned(PyInt(0))
        /\ \A j \in 1 .. MemLen : j > cb.size => cb.mem[j] = Untouched[j]
        /\ cb.size >= 1 =>
              cb.mem = memmove(Untouched,
                          Append(SubSeq(Bytes(cb.hout.val.v), 1,
                                        Min(cb.hout.val.v, cb.size - 1)),
                                 NUL))

\* C17: for read with requested size s, a handler result of n <= s bytes is
\* copied into the caller's buffer and n is returned (0 and no copy for an
\* empty or absent result); for a result of more than s bytes nothing is
\* copied and the over-long length is not returned, so never more than s
\* bytes are written.
C17_ReadNeverOverruns ==
    cb.op = "read" /\ ~cb.hout.raised =>
        /\ ~Truthy(cb.hout.val) =>
              cb.ret = Returned(PyInt(0)) /\ cb.mem = Untouched
        /\ Truthy(cb.hout.val) /\ cb.hout.val.v <= cb.size =>
              /\ cb.ret = Returned(PyInt(cb.hout.val.v))
              /\ cb.mem = memmove(Untouched, Bytes(cb.hout.val.v))
        /\ Truthy(cb.hout.val) /\ cb.hout.val.v > cb.size =>
              /\ cb.mem = Untouched
              /\ cb.ret # Returned(PyInt(cb.hout.val.v))
              /\ cb.ret = Returned(PyInt(-EINVAL))
        /\ \A j \in 1 .. MemLen : j > cb.size => cb.mem[j] = Untouched[j]

\* a read of 2 bytes whose handler returned 3: nothing was copied, the
\* call returned -EINVAL, and the session goes on
C17_Witness ==
    /\ cb.op = "read"
    /\ cb.size = 2
    /\ cb.hout = Returned(PyBytes(3))
    /\ cb.mem = Untouched
    /\ cb.ret = Returned(PyInt(-EINVAL))
    /\ critical_exception = PyNone

\* C18: a write with a buffer of size s whose handler returns a count
\* greater than s is rejected: the count is not returned to the kernel, the
\* critical-failure slot is set, termination of the session is requested
\* and -EFAULT is returned.
C18_OverlargeWriteEscalated ==
    /\ cb.op = "write"
    /\ ~cb.hout.raised
    /\ cb.hout.val.v > cb.size
    => /\ cb.ret # Returned(cb.hout.val)
       /\ cb.ret = Returned(PyInt(-EFAULT))
       /\ critical_exception # PyNone
       /\ exit_req # "none"

\* the callbacks on an open file, and those on an open directory
FileFamily ==
    FileOps \cup {"open", "create", "read", "write", "release", "fgetattr"}
DirFamily == {"opendir", "readdir", "releasedir", "fsyncdir"}

\* C19 as stated: in raw mode no adapter operation, opendir, readdir,
\* releasedir and fsyncdir included, writes the numeric field fh of the
\* native record or passes the bare numeric field instead of the record.
C19_RawModeEverywhere ==
    raw_fi => ~cb.fhset /\ cb.hfh.k # "int"

\* C19, amended: the choice made at construction applies to every
\* operation on an open file: in raw mode none of them writes fh, and each
\* passes the native record. The directory operations ignore the choice:
\* in both modes opendir stores the handler's return value in fh, and
\* readdir, releasedir and fsyncdir pass the bare numeric field.
C19_RawModeForFilesOnly ==
    /\ raw_fi /\ cb.op \in FileFamily /\ cb.inst # 0 =>
          ~cb.fhset /\ cb.hfh = FiRecord(cb.inst)
    /\ cb.op = "opendir" =>
          /\ cb.hfh = Omitted
          /\ cb.fhset <=> Stored(cb.hout)
          /\ cb.fhset => fi[cb.inst].fh = c_uint64(cb.hout.val.v)
    /\ cb.op \in DirFamily \ {"opendir"} => ~cb.fhset /\ cb.hfh.k = "int"

\* raw mode: one instance is an open file, and opendir on the other has
\* stored the handler's 3 in the field fh of its record
C19_Witness ==
    /\ raw_fi
    /\ cb.op = "opendir"
    /\ cb.fhset
    /\ cb.hout = Returned(PyInt(3))
    /\ fi[cb.inst].fh = 3
    /\ \E j \in Instances : opens[j].st = "file"

\* a value the unsigned 64-bit field fh can hold as it is
Token(x) == IsInt(x) /\ x.v \in 0 .. FhModulus - 1

\* the handle-bearing callbacks that follow an open or create
LaterOps == FileFamily \ {"open", "create"}

C20_State ==
    ~raw_fi =>
        /\ cb.op \in {"open", "create"} /\ ~cb.hout.raised
             /\ Token(cb.hout.val) =>
              /\ cb.ret = Returned(PyInt(0))
              /\ cb.fhset
              /\ opens[cb.inst].st = "file"
              /\ fi[cb.inst].fh = cb.hout.val.v
        /\ \A i \in Instances :
              opens[i].st = "file" /\ Token(opens[i].tok) =>
                  fi[i].fh = opens[i].tok.v

C20_Step ==
    ~raw_fi =>
        /\ \A i \in Instances :
              opens[i].st = "file" /\ opens'[i].st = "file" =>
                  fi'[i] = fi[i]
        /\ cb' # cb /\ cb'.op \in LaterOps /\ cb'.inst # 0
             /\ Token(opens[cb'.inst].tok) =>
              cb'.hfh = opens[cb'.inst].tok

\* C20: in numeric mode a successful open or create stores the value the
\* handler returned in the numeric field of that open instance and returns
\* 0; every later handle-bearing call on the instance passes exactly that
\* value to the handler; the adapter never changes the field between open
\* and release, however calls on this and other instances interleave.
C20_NumericHandleKept == [](C20_State) /\ [][C20_Step]_vars

\* numeric mode, both instances open as files: a read on one of them
\* passed the 3 its open had returned
C20_Witness ==
    /\ ~raw_fi
    /\ \A j \in Instances : opens[j].st = "file"
    /\ cb.op = "read"
    /\ opens[cb.inst].tok = PyInt(3)
    /\ cb.hfh = PyInt(3)

\* the SIGINT disposition in effect when the mount call began: on the main
\* thread signal() returned it (None for a handler not installed from
\* Python); off the main thread signal() raises ValueError and the
\* disposition never changes
OriginalHandler ==
    IF ~main_thread THEN sigint
    ELSE IF old_handler = "None" THEN "c_handler"
    ELSE old_handler

\* the native call loop is running
InLoop ==
    mpc \in {"main_init", "main_serve", "main_destroy", "main_destroying",
             "main_exit"}

\* C21: around the native call loop the mount call replaces the SIGINT
\* handler with the default one, and on every way out of the mount call the
\* handler in effect afterwards is the one in effect before, whatever it
\* was, a handler not installed from Python included; it is restored before
\* the mount call raises or returns.
C21_HandlerRestored ==
    /\ InLoop /\ main_thread => sigint = "SIG_DFL"
    /\ LoopEntered /\ (mpc = "done" \/ result # Pending) =>
          sigint = OriginalHandler

\* the version a reported number stands for, where it can be decoded
Decodable(v) == v < 1000
MajorOf(v) == IF v < 100 THEN v \div 10 ELSE v \div 100
MinorOf(v) == IF v < 100 THEN v % 10 ELSE v % 100

\* the module has been imported, or the import has failed
Imported == mpc # "import"

\* C22: startup succeeds only if the reported version decodes to major 2
\* and minor >= 6; for every other reported version the import raises a
\* descriptive error before any dispatch table can be built. A number
\* v < 100 decodes to (v div 10, v mod 10), 100 <= v < 1000 to
\* (v div 100, v mod 100).
C22_VersionGate ==
    /\ Decodable(version) =>
          /\ get_fuse_version(version).ok
          /\ get_fuse_version(version).major = MajorOf(version)
          /\ get_fuse_version(version).minor = MinorOf(version)
    /\ ~Decodable(version) => ~get_fuse_version(version).ok
    /\ Imported =>
          /\ mpc # "import_failed" <=>
                /\ Decodable(version)
                /\ MajorOf(version) = 2
                /\ MinorOf(version) >= 6
          /\ mpc # "import_failed" => fuse_version_minor = MinorOf(version)
          /\ mpc = "import_failed" =>
                /\ result = RaisedOut(AttributeError)
                /\ fuse_ops = NoTable
    /\ fuse_ops # NoTable => mpc # "import_failed"

\* libfuse 2.5 was reported: the import raised AttributeError and no table
\* was built
C22_Witness ==
    /\ version = 25
    /\ mpc = "import_failed"
    /\ result = RaisedOut(AttributeError)
    /\ fuse_ops = NoTable

\* the last callback was getattr or fgetattr and its handler returned an
\* attribute map
AttrReturned ==
    /\ cb.op \in {"getattr", "fgetattr"}
    /\ ~cb.hout.raised
    /\ cb.hout.val.k = "dict"

\* the items of that map, and the positions of those that name field f
AttrItems == ItemsOf(cb.hout.val)
Naming(f) ==
    {j \in 1 .. Len(AttrItems) :
        \/ AttrItems[j].key = f
        \/ AttrItems[j].key \in TimeKeys /\ SpecOf(AttrItems[j].key) = f}

\* the time pair ts stands for the value val of the map
Encodes(ts, val) ==
    IF use_ns
    THEN /\ ts.tv_sec * NsPerSec + ts.tv_nsec = val
         /\ ts.tv_nsec \in 0 .. NsPerSec - 1
    ELSE ts.tv_sec = val /\ ts.tv_nsec = 0

\* C23: after a successful getattr or fgetattr every field of the
\* attribute record named by a key of the handler's map holds the map's
\* value, every field named by no key is zero, and keys that name no field
\* of the record, a time key whose time pair the platform lacks included,
\* change nothing and cause no error.
C23_RecordHoldsMap ==
    AttrReturned =>
        /\ cb.ret = Returned(PyInt(0))
        /\ DOMAIN st.rec.plain = PlainFields
        /\ DOMAIN st.rec.times = TimeFields(_system)
        /\ \A f \in PlainFields :
              /\ \A j \in Naming(f) : st.rec.plain[f] = AttrItems[j].val
              /\ Naming(f) = {} => st.rec.plain[f] = 0
        /\ \A f \in TimeFields(_system) :
              /\ \A j \in Naming(f) :
                    Encodes(st.rec.times[f], AttrItems[j].val)
              /\ Naming(f) = {} =>
                    st.rec.times[f] = [tv_sec |-> 0, tv_nsec |-> 0]

\* on Linux a map with st_size, st_birthtime and st_gen was returned: the
\* call succeeded, st_size is set and the rest of the record is zero
C23_Witness ==
    /\ AttrReturned
    /\ _system = "Linux"
    /\ cb.hout.val = Dict(2)
    /\ cb.ret = Returned(PyInt(0))
    /\ st.rec.plain["st_size"] = 5
    /\ st.rec.plain["st_mode"] = 0
    /\ st.rec.times["st_atimespec"] = [tv_sec |-> 0, tv_nsec |-> 0]

\* with use_ns every time pair set_st_attrs wrote has its tv_nsec in
\* 0 .. 999999999
C24_State ==
    use_ns /\ AttrReturned =>
        \A f \in TimeFields(_system) :
            st.rec.times[f].tv_nsec \in 0 .. NsPerSec - 1

\* with use_ns, a utimens callback on the time pairs the preceding getattr
\* or fgetattr encoded hands the handler the integers of the map
C24_Step ==
    use_ns /\ AttrReturned /\ cb'.op = "utimens" /\ ~utimes'.null =>
        /\ \A j \in Naming("st_atimespec") :
              utimes'.atime = [k |-> "int", whole |-> AttrItems[j].val,
                               frac |-> 0]
        /\ \A j \in Naming("st_mtimespec") :
              utimes'.mtime = [k |-> "int", whole |-> AttrItems[j].val,
                               frac |-> 0]

\* C24: with use_ns, encoding an integer nanosecond time stamp t into a
\* time pair with set_st_attrs and decoding the pair with time_of_timespec
\* gives exactly t, for negative t too, and the encoded tv_nsec lies in
\* 0 .. 999999999.
C24_NanosecondRoundTrip == [](C24_State) /\ [][C24_Step]_vars

\* with use_ns the stamp -1 was encoded as (-1, 999999999) and utimens
\* decoded it as -1
C24_Witness ==
    /\ use_ns
    /\ cb.op = "utimens"
    /\ ~utimes.null
    /\ st.rec.times["st_atimespec"] = [tv_sec |-> -1, tv_nsec |-> 999999999]
    /\ utimes.atime = [k |-> "int", whole |-> -1, frac |-> 0]

\* C25: with the base Operations as the implementation the getattr slot is
\* installed; the getattr callback for "/" returns 0 and fills the record
\* with the mode S_IFDIR | 0o755 and the link count 2; for any other path
\* it returns -ENOENT and the session is not asked to end.
C25_DefaultGetattr ==
    impl = Operations =>
        /\ fuse_ops["getattr"] = "installed"
        /\ cb.op = "getattr" =>
              IF st.path = "/"
              THEN /\ cb.ret = Returned(PyInt(0))
                   /\ st.rec.plain["st_mode"] = S_IFDIR + 493
                   /\ st.rec.plain["st_nlink"] = 2
              ELSE /\ cb.ret = Returned(PyInt(-ENOENT))
                   /\ critical_exception = PyNone
                   /\ exit_req = "none"

\* the base Operations was asked for the attributes of "/missing"
C25_Witness ==
    /\ impl = Operations
    /\ cb.op = "getattr"
    /\ st.path = "/missing"
    /\ cb.ret = Returned(PyInt(-ENOENT))
    /\ exit_req = "none"

\* the code _wrapper returns for an exception below Exception
ErrorCode(e) == IF e.k = "OSError" THEN OSErrorCode(e) ELSE ExceptionCode(e)

C26_Step ==
    ~raw_fi /\ cb'.op \in {"open", "create", "opendir"} =>
        /\ cb'.hout.raised =>
              /\ fi'[cb'.inst] = fi[cb'.inst]
              /\ ~cb'.fhset
              /\ cb'.ret = Returned(ErrorCode(cb'.hout.val))
              /\ cb'.ret.val.v < 0
              /\ opens'[cb'.inst] = Closed
        /\ fi' # fi => ~cb'.hout.raised /\ IsInt(cb'.hout.val)

\* C26: in numeric mode, when the open, create or opendir handler raises a
\* domain error or an ordinary exception, the fh field of the record keeps
\* the value it had before the call and the callback returns the negative
\* code of the error, never 0; fh changes only in a call whose handler
\* returned.
C26_FailedOpenKeepsHandle == [][C26_Step]_vars

\* numeric mode: a create on a record whose fh held 9 failed with ENOENT;
\* the field still holds 9 and the callback returned -2
C26_Witness ==
    /\ ~raw_fi
    /\ cb.op = "create"
    /\ cb.hout = Raised(OSErrorWith(PyInt(ENOENT)))
    /\ cb.ret = Returned(PyInt(-ENOENT))
    /\ opens[cb.inst] = Closed
    /\ fi[cb.inst].fh = 9

====
